---- MODULE Spec2Model ----
(***************************************************************************)
(* Model of CliOptionParser (src/src/lib.rs): registration of options,     *)
(* scanning of an argument vector and the query accessors.                 *)
(*                                                                         *)
(* A Rust String is modelled as the sequence of its chars; every char is a *)
(* one-element TLA+ string and carries its UTF-8 width, so that byte       *)
(* offsets (String::len, str::split_at) are computed as the code computes  *)
(* them.  Option<String> is a sequence of length 0 (None) or 1 (Some).     *)
(* A HashMap is a function whose DOMAIN is the set of keys present.        *)
(* A panic is recorded in the outcome of the call; the tables keep         *)
(* whatever the call had written before it unwound.                        *)
(***************************************************************************)
EXTENDS Integers, Sequences, FiniteSets, TLC

VARIABLES name_to_cli_option_map, name_to_option_value_map,
          short_form_to_name_map, long_form_to_name_map,
          last, nScanned

vars == <<name_to_cli_option_map, name_to_option_value_map,
          short_form_to_name_map, long_form_to_name_map,
          last, nScanned>>

tables == <<name_to_cli_option_map, name_to_option_value_map,
            short_form_to_name_map, long_form_to_name_map>>

(* ------------------------------ bounds --------------------------------- *)
(* The number of tokens a parser scans over its lifetime, over all calls   *)
(* of parse_from.                                                          *)
MaxScanned == 2

(* ------------------------------ strings -------------------------------- *)
WideChar == "U+00E9"

len_utf8(c) == IF c = WideChar THEN 2 ELSE 1

RECURSIVE len(_)
len(s) == IF s = <<>> THEN 0 ELSE len_utf8(Head(s)) + len(Tail(s))

starts_with(s, p) == Len(s) >= Len(p) /\ SubSeq(s, 1, Len(p)) = p

contains(s, c) == \E i \in DOMAIN s : s[i] = c

RECURSIVE split(_, _)
split(s, c) ==
    IF ~contains(s, c) THEN <<s>>
    ELSE LET i == CHOOSE k \in DOMAIN s :
                      s[k] = c /\ \A j \in 1..(k - 1) : s[j] # c
         IN  <<SubSeq(s, 1, i - 1)>> \o split(SubSeq(s, i + 1, Len(s)), c)

is_char_boundary(s, mid) ==
    \E k \in 0..Len(s) : len(SubSeq(s, 1, k)) = mid

split_at(s, mid) ==
    LET k == CHOOSE j \in 0..Len(s) : len(SubSeq(s, 1, j)) = mid
    IN  <<SubSeq(s, 1, k), SubSeq(s, k + 1, Len(s))>>

(* ------------------------------- maps ---------------------------------- *)
None == <<>>
Some(x) == <<x>>

EmptyMap == [k \in {} |-> {}]

contains_key(m, k) == k \in DOMAIN m

insert(m, k, v) == [x \in DOMAIN m \cup {k} |-> IF x = k THEN v ELSE m[x]]

(* ---------------------------- value state ------------------------------ *)
NewOptionValue_Enabled == [is_enabled |-> TRUE, values |-> <<>>]

NewOptionValue == [is_enabled |-> FALSE, values |-> <<>>]

or_insert(m, k) == IF contains_key(m, k) THEN m ELSE insert(m, k, NewOptionValue)

enable_option(m, option_name) ==
    LET e == or_insert(m, option_name)
    IN  [e EXCEPT ![option_name].is_enabled = TRUE]

add_value_to_option_SkipEmpty(m, option_name, value) ==
    LET e == or_insert(m, option_name)
    IN  IF value = <<>>
        THEN [e EXCEPT ![option_name].is_enabled = TRUE]
        ELSE [e EXCEPT ![option_name].values = Append(@, value),
                       ![option_name].is_enabled = TRUE]

add_value_to_option(m, option_name, value) ==
    LET e == or_insert(m, option_name)
    IN  [e EXCEPT ![option_name].values = Append(@, value),
                  ![option_name].is_enabled = TRUE]

is_enabled(m, name) ==
    IF ~contains_key(m, name) THEN FALSE ELSE m[name].is_enabled

get_option_values(m, name) ==
    IF ~is_enabled(m, name) THEN <<>> ELSE m[name].values

(* ------------------------------ scanning ------------------------------- *)
push_argument_Front(arguments, arg) == <<arg>> \o arguments

push_argument(arguments, arg) == Append(arguments, arg)

(* One iteration of the loop of parse_from.  S is the scan in progress:    *)
(* the value table, the positional arguments so far, and whether the scan  *)
(* has panicked.                                                           *)
ParseArg(S, arg, shorts, longs) ==
    IF starts_with(arg, <<"-", "-">>) THEN
        IF contains(arg, "=") THEN
            LET arg_split == split(arg, "=")
                option == arg_split[1]
                value == arg_split[2]
            IN  IF ~contains_key(longs, option) THEN S
                ELSE [S EXCEPT !.vals = add_value_to_option(@, longs[option], value)]
        ELSE
            IF ~contains_key(longs, arg) THEN S
            ELSE [S EXCEPT !.vals = enable_option(@, longs[arg])]
    ELSE IF starts_with(arg, <<"-">>) THEN
        IF len(arg) > 1 THEN
            IF ~is_char_boundary(arg, 2) THEN [S EXCEPT !.panicked = TRUE]
            ELSE LET option == split_at(arg, 2)[1]
                     value == split_at(arg, 2)[2]
                 IN  IF ~contains_key(shorts, option) THEN S
                     ELSE [S EXCEPT !.vals =
                               add_value_to_option(@, shorts[option], value)]
        ELSE
            IF ~contains_key(shorts, arg) THEN S
            ELSE [S EXCEPT !.vals = enable_option(@, shorts[arg])]
    ELSE [S EXCEPT !.arguments = push_argument(@, arg)]

RECURSIVE ParseLoop(_, _, _, _)
ParseLoop(S, args, shorts, longs) ==
    IF args = <<>> \/ S.panicked THEN S
    ELSE ParseLoop(ParseArg(S, Head(args), shorts, longs), Tail(args), shorts, longs)

parse_from(vals, args, shorts, longs) ==
    ParseLoop([vals |-> vals, arguments |-> <<>>, panicked |-> FALSE],
              args, shorts, longs)

(* ---------------------------- registration ----------------------------- *)
BothFormsAbsent_Either(short_form, long_form) ==
    short_form = None \/ long_form = None

BothFormsAbsent(short_form, long_form) == short_form = None /\ long_form = None

(* The tables after register_option and whether it panicked.  The checks   *)
(* and the insertions happen in the order of the code, so a panic at the   *)
(* long form check keeps the short form binding made just before it.       *)
register_option(T, short_form, long_form, name) ==
    IF contains_key(T.cli, name) THEN [T EXCEPT !.panicked = TRUE]
    ELSE IF BothFormsAbsent(short_form, long_form) THEN [T EXCEPT !.panicked = TRUE]
    ELSE IF short_form # None /\ contains_key(T.shorts, short_form[1])
         THEN [T EXCEPT !.panicked = TRUE]
    ELSE LET T1 == IF short_form # None
                   THEN [T EXCEPT !.shorts = insert(@, short_form[1], name)]
                   ELSE T
         IN  IF long_form # None /\ contains_key(T1.longs, long_form[1])
             THEN [T1 EXCEPT !.panicked = TRUE]
             ELSE LET T2 == IF long_form # None
                            THEN [T1 EXCEPT !.longs = insert(@, long_form[1], name)]
                            ELSE T1
                  IN  [T2 EXCEPT
                         !.cli = insert(@, name, [long_form |-> long_form,
                                                  short_form |-> short_form]),
                         !.vals = insert(@, name, NewOptionValue)]

(* ------------------------------- inputs -------------------------------- *)
Names == {"count", "context"}

ShortForms == {<<"-", "c">>, <<"-">>}
LongForms == {<<"-", "-", "n">>, <<"-", "c">>}

OptForms(F) == {None} \cup {Some(f) : f \in F}

Tokens == { <<>>, <<"p">>, <<"-">>, <<"-", "-">>,
            <<"-", "c">>, <<"-", "c", "1">>,
            <<"-", "-", "n">>, <<"-", "-", "n", "=", "1">>,
            <<"-", "-", "n", "=", "1", "=", "2">>,
            <<"-", WideChar>> }

RECURSIVE SeqsUpTo(_, _)
SeqsUpTo(S, n) ==
    IF n = 0 THEN {<<>>}
    ELSE LET R == SeqsUpTo(S, n - 1)
         IN  R \cup {Append(r, x) : r \in {q \in R : Len(q) = n - 1}, x \in S}

ArgVectors == SeqsUpTo(Tokens, MaxScanned)

(* ----------------------------- state machine --------------------------- *)
(* last is the most recent call on the parser, the arguments of a scan and *)
(* the outcome: whether the call panicked and what it returned.            *)
NoCall == [op |-> "new", args |-> <<>>, panicked |-> FALSE, ret |-> <<>>]

Init ==
    /\ name_to_cli_option_map = EmptyMap
    /\ name_to_option_value_map = EmptyMap
    /\ short_form_to_name_map = EmptyMap
    /\ long_form_to_name_map = EmptyMap
    /\ last = NoCall
    /\ nScanned = 0

Register(short_form, long_form, name) ==
    /\ LET R == register_option([cli |-> name_to_cli_option_map,
                                 vals |-> name_to_option_value_map,
                                 shorts |-> short_form_to_name_map,
                                 longs |-> long_form_to_name_map,
                                 panicked |-> FALSE],
                                short_form, long_form, name)
       IN  /\ name_to_cli_option_map' = R.cli
           /\ name_to_option_value_map' = R.vals
           /\ short_form_to_name_map' = R.shorts
           /\ long_form_to_name_map' = R.longs
           /\ last' = [NoCall EXCEPT !.op = "register_option",
                                     !.panicked = R.panicked]
    /\ UNCHANGED nScanned

Parse(args) ==
    /\ nScanned + Len(args) <= MaxScanned
    /\ LET R == parse_from(name_to_option_value_map, args,
                           short_form_to_name_map, long_form_to_name_map)
       IN  /\ name_to_option_value_map' = R.vals
           /\ last' = [NoCall EXCEPT !.op = "parse_from", !.args = args,
                                     !.panicked = R.panicked,
                                     !.ret = R.arguments]
    /\ nScanned' = nScanned + Len(args)
    /\ UNCHANGED <<name_to_cli_option_map, short_form_to_name_map,
                   long_form_to_name_map>>

Next ==
    \/ \E s \in OptForms(ShortForms), l \in OptForms(LongForms), n \in Names :
           Register(s, l, n)
    \/ \E args \in ArgVectors : Parse(args)

Spec == Init /\ [][Next]_vars

(* ======================= properties of the parser ====================== *)
(* Names a caller may query: the registrable ones and one that no call     *)
(* ever registers.                                                         *)
QueryNames == Names \cup {"unregistered"}

ParseReturned == last'.op = "parse_from" /\ ~last'.panicked

IsPrefix(p, s) == Len(p) <= Len(s) /\ SubSeq(s, 1, Len(p)) = p

Positional(t) == t = <<>> \/ t[1] # "-"
DoubleDash(t) == Len(t) >= 2 /\ t[1] = "-" /\ t[2] = "-"
SingleDash(t) == Len(t) >= 1 /\ t[1] = "-" /\ ~DoubleDash(t)
HasEq(t) == \E i \in DOMAIN t : t[i] = "="
FirstEq(t) == CHOOSE i \in DOMAIN t : t[i] = "=" /\ \A j \in 1..(i - 1) : t[j] # "="
LeftOfFirstEq(t) == SubSeq(t, 1, FirstEq(t) - 1)
RightOfFirstEq(t) == SubSeq(t, FirstEq(t) + 1, Len(t))
NumEq(t) == Cardinality({i \in DOMAIN t : t[i] = "="})

(* ------------------------------- C2 ------------------------------------ *)
(* C2: whenever parse_from returns, the returned sequence is exactly the   *)
(* tokens that do not start with "-" (the empty string included),          *)
(* verbatim and in their original order, and those tokens have no effect   *)
(* on the value table: it ends as it would had they not been in the input. *)
C2_PositionalsPassThrough ==
    [][ParseReturned =>
          /\ last'.ret = SelectSeq(last'.args, Positional)
          /\ name_to_option_value_map' =
                 parse_from(name_to_option_value_map,
                            SelectSeq(last'.args, LAMBDA t : ~Positional(t)),
                            short_form_to_name_map, long_form_to_name_map).vals
          /\ (\A i \in DOMAIN last'.args : Positional(last'.args[i]))
                 => name_to_option_value_map' = name_to_option_value_map]_vars

C2_Witness ==
    /\ last.op = "parse_from" /\ ~last.panicked
    /\ Len(last.ret) = 2 /\ last.ret[1] # last.ret[2]

(* ------------------------------- C4 ------------------------------------ *)
C4_MustFail(short_form, long_form, name) ==
    \/ name \in DOMAIN name_to_cli_option_map
    \/ (short_form = None /\ long_form = None)
    \/ (short_form # None /\ short_form[1] \in DOMAIN short_form_to_name_map)
    \/ (long_form # None /\ long_form[1] \in DOMAIN long_form_to_name_map)

(* C4: register_option fails exactly when the name is already registered,  *)
(* or both forms are absent, or the short form is already bound in the     *)
(* short-form table, or the long form is already bound in the long-form    *)
(* table; in every other case it succeeds and records the definition.      *)
C4_RegisterFailsExactlyWhen ==
    [][last'.op = "register_option" =>
          \A s \in OptForms(ShortForms), l \in OptForms(LongForms), n \in Names :
              \/ /\ last'.panicked <=> C4_MustFail(s, l, n)
                 /\ ~last'.panicked =>
                       /\ n \in DOMAIN name_to_cli_option_map'
                       /\ name_to_cli_option_map'[n] =
                              [long_form |-> l, short_form |-> s]
              \/ ~Register(s, l, n)]_vars

(* One text is the short form of one option and the long form of another. *)
C4_Witness ==
    /\ last.op = "register_option" /\ ~last.panicked
    /\ \E a, b \in DOMAIN name_to_cli_option_map :
          /\ a # b
          /\ name_to_cli_option_map[a].short_form # None
          /\ name_to_cli_option_map[a].short_form = name_to_cli_option_map[b].long_form

(* ------------------------------- C8 ------------------------------------ *)
(* C8: before any token is scanned, every name, registered or not, is not  *)
(* enabled and has no values; and at all times a name that is not enabled  *)
(* has no values.                                                          *)
C8_DisabledAndEmptyBeforeScan ==
    /\ nScanned = 0 =>
          \A n \in QueryNames :
              /\ ~is_enabled(name_to_option_value_map, n)
              /\ get_option_values(name_to_option_value_map, n) = <<>>
    /\ \A n \in QueryNames :
          ~is_enabled(name_to_option_value_map, n)
              => get_option_values(name_to_option_value_map, n) = <<>>

C8_Witness ==
    /\ nScanned = 0
    /\ last.op = "register_option" /\ ~last.panicked
    /\ DOMAIN name_to_cli_option_map # {}
    /\ \E n \in QueryNames : n \notin DOMAIN name_to_option_value_map

(* ------------------------------- C10 ----------------------------------- *)
C10_ShortHit(t, n) ==
    /\ SingleDash(t) /\ Len(t) >= 2
    /\ SubSeq(t, 1, 2) \in DOMAIN short_form_to_name_map
    /\ short_form_to_name_map[SubSeq(t, 1, 2)] = n

C10_LoneDashHit(t, n) ==
    /\ t = <<"-">>
    /\ t \in DOMAIN short_form_to_name_map /\ short_form_to_name_map[t] = n

C10_BareLongHit(t, n) ==
    /\ DoubleDash(t) /\ ~HasEq(t)
    /\ t \in DOMAIN long_form_to_name_map /\ long_form_to_name_map[t] = n

C10_LongValueHit(t, n) ==
    /\ DoubleDash(t) /\ HasEq(t)
    /\ LeftOfFirstEq(t) \in DOMAIN long_form_to_name_map
    /\ long_form_to_name_map[LeftOfFirstEq(t)] = n

(* C10: a recognized single-dash token of length at least 2 appends        *)
(* exactly one value, the empty string when the token is the bare short    *)
(* form; a recognized bare long token and a recognized lone "-" enable the *)
(* option and append nothing.  So a scan that returns lengthens each       *)
(* option's values by the number of its short hits and long "=" hits.      *)
C10_BareShortAppendsEmpty ==
    [][ParseReturned =>
          \A n \in Names :
              LET args == last'.args
                  pre == get_option_values(name_to_option_value_map, n)
                  post == get_option_values(name_to_option_value_map', n)
                  appending == {i \in DOMAIN args :
                                   C10_ShortHit(args[i], n) \/ C10_LongValueHit(args[i], n)}
                  hits == {i \in DOMAIN args :
                              \/ C10_ShortHit(args[i], n) \/ C10_LongValueHit(args[i], n)
                              \/ C10_LoneDashHit(args[i], n) \/ C10_BareLongHit(args[i], n)}
              IN  /\ Len(post) = Len(pre) + Cardinality(appending)
                  /\ IsPrefix(pre, post)
                  /\ is_enabled(name_to_option_value_map', n)
                        <=> (is_enabled(name_to_option_value_map, n) \/ hits # {})
                  /\ (args # <<>> /\ Len(args[Len(args)]) = 2
                         /\ C10_ShortHit(args[Len(args)], n))
                        => post[Len(post)] = <<>>]_vars

(* A bare short form was scanned after a value: the option's values end   *)
(* with the empty string.                                                  *)
C10_Witness ==
    /\ last.op = "parse_from" /\ ~last.panicked
    /\ \E n \in Names :
          LET v == get_option_values(name_to_option_value_map, n)
          IN  Len(v) = 2 /\ v[1] # <<>> /\ v[2] = <<>>

(* ------------------------------- C1 ------------------------------------ *)
(* The option is registered with a short form "-x" and a long form that   *)
(* starts with "--" and holds no "=".                                      *)
C1_Registered(n) ==
    /\ n \in DOMAIN name_to_cli_option_map
    /\ LET d == name_to_cli_option_map[n]
       IN  /\ d.short_form # None /\ d.long_form # None
           /\ Len(d.short_form[1]) = 2 /\ SingleDash(d.short_form[1])
           /\ DoubleDash(d.long_form[1]) /\ ~HasEq(d.long_form[1])

C1_ShortShape(t, sf) == SingleDash(t) /\ Len(t) >= 2 /\ SubSeq(t, 1, 2) = sf
C1_LongShape(t, lf) ==
    /\ DoubleDash(t) /\ NumEq(t) = 1 /\ LeftOfFirstEq(t) = lf

(* The value texts, in token order, of the tokens "-xV" and "--name=V".   *)
RECURSIVE C1_ValueTexts(_, _, _)
C1_ValueTexts(tokens, sf, lf) ==
    IF tokens = <<>> THEN <<>>
    ELSE LET t == Head(tokens)
             rest == C1_ValueTexts(Tail(tokens), sf, lf)
         IN  IF C1_ShortShape(t, sf) THEN <<SubSeq(t, 3, Len(t))>> \o rest
             ELSE IF C1_LongShape(t, lf) THEN <<RightOfFirstEq(t)>> \o rest
             ELSE rest

(* C1: after a scan of a fresh value state that returns, a registered      *)
(* option's values are the value texts of exactly the tokens "-xV" and     *)
(* "--name=V", in token order, and it is enabled iff a token matched one   *)
(* of its forms.  Stated for token lists in which no "--" token holds a    *)
(* second "=", the lists the claim's shapes describe.                      *)
C1_ValuesAreMatchingTokens ==
    [][(/\ ParseReturned
        /\ \A n \in QueryNames : ~is_enabled(name_to_option_value_map, n)
        /\ \A i \in DOMAIN last'.args :
              DoubleDash(last'.args[i]) => NumEq(last'.args[i]) <= 1)
       => \A n \in Names :
             C1_Registered(n) =>
                LET sf == name_to_cli_option_map[n].short_form[1]
                    lf == name_to_cli_option_map[n].long_form[1]
                    args == last'.args
                IN  /\ get_option_values(name_to_option_value_map', n)
                           = C1_ValueTexts(args, sf, lf)
                    /\ is_enabled(name_to_option_value_map', n)
                           <=> \E i \in DOMAIN args :
                                   \/ C1_ShortShape(args[i], sf)
                                   \/ C1_LongShape(args[i], lf)
                                   \/ args[i] = lf]_vars

(* ------------------------------- C3 ------------------------------------ *)
(* The forms of the options whose registration succeeded.                  *)
C3_ShortFormsRegistered ==
    {name_to_cli_option_map[n].short_form[1] :
        n \in {x \in DOMAIN name_to_cli_option_map :
                  name_to_cli_option_map[x].short_form # None}}
C3_LongFormsRegistered ==
    {name_to_cli_option_map[n].long_form[1] :
        n \in {x \in DOMAIN name_to_cli_option_map :
                  name_to_cli_option_map[x].long_form # None}}

C3_OptionText(t) ==
    IF DoubleDash(t) THEN (IF HasEq(t) THEN LeftOfFirstEq(t) ELSE t)
    ELSE IF Len(t) >= 2 THEN SubSeq(t, 1, 2) ELSE t

C3_UnregisteredFlag(t) ==
    /\ ~Positional(t)
    /\ IF DoubleDash(t) THEN C3_OptionText(t) \notin C3_LongFormsRegistered
       ELSE C3_OptionText(t) \notin C3_ShortFormsRegistered

(* C3: a scan of tokens that start with "-" and whose option text is not   *)
(* a form of any registered option leaves the value table as it was, no    *)
(* entry created, and returns none of them.                                *)
C3_UnregisteredFlagsDiscarded ==
    [][(/\ last'.op = "parse_from"
        /\ \A i \in DOMAIN last'.args : C3_UnregisteredFlag(last'.args[i]))
       => /\ name_to_option_value_map' = name_to_option_value_map
          /\ last'.ret = <<>>]_vars

(* ------------------------------- C5 ------------------------------------ *)
(* C5: a register_option call that fails leaves the definitions, the       *)
(* value states and both form indexes as they were before the call.        *)
C5_FailedRegisterChangesNothing ==
    [][(last'.op = "register_option" /\ last'.panicked)
          => tables' = tables]_vars

(* ------------------------------- C6 ------------------------------------ *)
(* C6: when the last token scanned is "--opt=..." with "--opt" a bound     *)
(* long form, the value appended to the resolved option is everything to   *)
(* the right of the first "=", further "=" included.                       *)
C6_SplitOnFirstEqOnly ==
    [][(ParseReturned /\ last'.args # <<>>) =>
          LET t == last'.args[Len(last'.args)]
          IN  (DoubleDash(t) /\ HasEq(t)
                 /\ LeftOfFirstEq(t) \in DOMAIN long_form_to_name_map)
              => LET n == long_form_to_name_map[LeftOfFirstEq(t)]
                     v == get_option_values(name_to_option_value_map', n)
                 IN  v # <<>> /\ v[Len(v)] = RightOfFirstEq(t)]_vars

(* ------------------------------- C7 ------------------------------------ *)
(* C7: parse_from never fails, whatever the tokens.                        *)
C7_ParseNeverPanics == last.op = "parse_from" => ~last.panicked

(* ------------------------------- C9 ------------------------------------ *)
(* C9: once a name is enabled it stays enabled, and the values collected   *)
(* for it stay a prefix of its values, over every later call.              *)
C9_EnabledIsMonotonic ==
    [][\A n \in QueryNames :
          is_enabled(name_to_option_value_map, n)
             => /\ is_enabled(name_to_option_value_map', n)
                /\ IsPrefix(get_option_values(name_to_option_value_map, n),
                            get_option_values(name_to_option_value_map', n))]_vars

====
